---------------------------- MODULE Spec2Model ----------------------------
(***************************************************************************)
(* A model of KTK-Jadoo/FiringRange: the Mifflin-St Jeor BMR/TDEE          *)
(* calculator with its text front end (firingrange.py) and its windowed    *)
(* front end (tdee_gui.py).                                                *)
(*                                                                         *)
(* Python floats are IEEE-754 binary64 values and Python ints are          *)
(* unbounded.  Both are modelled bit-exactly on top of natural numbers     *)
(* kept as little-endian sequences of 15-bit limbs, so that rounding,      *)
(* overflow to infinity, underflow to zero and the int -> float            *)
(* OverflowError are behaviours of the model and not assumptions.          *)
(* Strings that the code inspects character by character (strip, lower,    *)
(* int(), float(), join) are sequences of one-character strings.           *)
(***************************************************************************)
EXTENDS Integers, Sequences, FiniteSets, TLC

(***************************************************************************)
(* Natural numbers of any size (the magnitude of a Python int, the         *)
(* significand of a float): little-endian limbs, no leading zero limb,     *)
(* zero is << >>.                                                          *)
(***************************************************************************)
LimbBits == 5 * 3
Base == 2 ^ LimbBits

Max(a, b) == IF a >= b THEN a ELSE b
Min(a, b) == IF a <= b THEN a ELSE b

\* F of the value v: v is computed once, however often F uses it
Let(v, F(_)) == F(v)

\* drop the zero limbs at the top
BTrim(a) ==
  Let({i \in 1..Len(a) : a[i] # 0}, LAMBDA nz :
    IF nz = {} THEN << >>
    ELSE SubSeq(a, 1, CHOOSE i \in nz : \A j \in nz : i >= j))

RECURSIVE BN(_)
BN(n) == IF n = 0 THEN << >> ELSE <<n % Base>> \o BN(n \div Base)

Limb(a, i) == IF i <= Len(a) THEN a[i] ELSE 0

\* limbs lo..hi of a + b + c with the carry out of limb hi, by halves
RECURSIVE BAddRange(_, _, _, _, _)
BAddRange(a, b, lo, hi, c) ==
  IF lo = hi
  THEN LET s == Limb(a, lo) + Limb(b, lo) + c
       IN  [limbs |-> <<s % Base>>, c |-> s \div Base]
  ELSE LET mid == (lo + hi) \div 2
           L == BAddRange(a, b, lo, mid, c)
           H == BAddRange(a, b, mid + 1, hi, L.c)
       IN  [limbs |-> L.limbs \o H.limbs, c |-> H.c]

BAdd(a, b) ==
  IF a = << >> /\ b = << >> THEN << >>
  ELSE Let(BAddRange(a, b, 1, Max(Len(a), Len(b)), 0), LAMBDA r :
         IF r.c = 0 THEN r.limbs ELSE r.limbs \o <<r.c>>)

\* limbs lo..hi of a - b - c with the borrow out of limb hi, by halves
RECURSIVE BSubRange(_, _, _, _, _)
BSubRange(a, b, lo, hi, c) ==
  IF lo = hi
  THEN LET d == Limb(a, lo) - Limb(b, lo) - c
       IN  IF d < 0 THEN [limbs |-> <<d + Base>>, c |-> 1]
                    ELSE [limbs |-> <<d>>, c |-> 0]
  ELSE LET mid == (lo + hi) \div 2
           L == BSubRange(a, b, lo, mid, c)
           H == BSubRange(a, b, mid + 1, hi, L.c)
       IN  [limbs |-> L.limbs \o H.limbs, c |-> H.c]

\* a - b for a >= b
BSub(a, b) == IF a = << >> THEN << >> ELSE BTrim(BSubRange(a, b, 1, Len(a), 0).limbs)

\* -1, 0, 1 as a < b, a = b, a > b
BCmp(a, b) ==
  IF Len(a) < Len(b) THEN -1
  ELSE IF Len(a) > Len(b) THEN 1
  ELSE Let({i \in 1..Len(a) : a[i] # b[i]}, LAMBDA df :
         IF df = {} THEN 0
         ELSE Let(CHOOSE i \in df : \A j \in df : i >= j, LAMBDA top :
                IF a[top] < b[top] THEN -1 ELSE 1))

\* limbs lo..hi of a * d + c with the carry out of limb hi, by halves
RECURSIVE BMulLimbRange(_, _, _, _, _)
BMulLimbRange(a, d, lo, hi, c) ==
  IF lo = hi
  THEN LET p == a[lo] * d + c
       IN  [limbs |-> <<p % Base>>, c |-> p \div Base]
  ELSE LET mid == (lo + hi) \div 2
           L == BMulLimbRange(a, d, lo, mid, c)
           H == BMulLimbRange(a, d, mid + 1, hi, L.c)
       IN  [limbs |-> L.limbs \o H.limbs, c |-> H.c]

\* a * d for one limb d
BMulLimb(a, d) ==
  IF d = 0 \/ a = << >> THEN << >>
  ELSE Let(BMulLimbRange(a, d, 1, Len(a), 0), LAMBDA r :
         IF r.c = 0 THEN r.limbs ELSE r.limbs \o <<r.c>>)

BShlLimbs(a, k) == IF a = << >> THEN a ELSE [i \in 1..k |-> 0] \o a

\* a * (limbs lo..hi of b, in place), by halves
RECURSIVE BMulRange(_, _, _, _)
BMulRange(a, b, lo, hi) ==
  IF lo = hi THEN BShlLimbs(BMulLimb(a, b[lo]), lo - 1)
  ELSE LET mid == (lo + hi) \div 2
       IN  BAdd(BMulRange(a, b, lo, mid), BMulRange(a, b, mid + 1, hi))

BMul(a, b) == IF a = << >> \/ b = << >> THEN << >> ELSE BMulRange(a, b, 1, Len(b))

\* a * 2^n
BShl(a, n) == BShlLimbs(BMulLimb(a, 2 ^ (n % LimbBits)), n \div LimbBits)

\* floor(a / 2^n)
BShr(a, n) ==
  LET q == n \div LimbBits
      r == n % LimbBits
  IN  IF q >= Len(a) THEN << >>
      ELSE BTrim([i \in 1..(Len(a) - q) |->
                   (a[i + q] \div 2 ^ r)
                   + (Limb(a, i + q + 1) % 2 ^ r) * 2 ^ (LimbBits - r)])

RECURSIVE BitLenSmall(_)
BitLenSmall(n) == IF n = 0 THEN 0 ELSE 1 + BitLenSmall(n \div 2)

BBitLen(a) ==
  IF a = << >> THEN 0 ELSE LimbBits * (Len(a) - 1) + BitLenSmall(a[Len(a)])

\* bit n of a, bit 0 the lowest
BBit(a, n) == (Limb(a, n \div LimbBits + 1) \div 2 ^ (n % LimbBits)) % 2

\* the n lowest bits of a are all zero
BLowZero(a, n) == BShl(BShr(a, n), n) = a

BOdd(a) == a # << >> /\ a[1] % 2 = 1

\* the largest d in lo..hi with d * b <= r (bisection)
RECURSIVE BDigit(_, _, _, _)
BDigit(r, b, lo, hi) ==
  IF lo = hi THEN lo
  ELSE LET mid == (lo + hi + 1) \div 2
       IN  IF BCmp(BMulLimb(b, mid), r) <= 0
           THEN BDigit(r, b, mid, hi)
           ELSE BDigit(r, b, lo, mid - 1)

\* a of at most two limbs, as a number
BSmall(a) == Limb(a, 1) + Limb(a, 2) * Base

\* floor(r / b) for r < b * Base: bracketed by the leading bits of r and b
BDigitOf(r, b) ==
  Let(Max(0, BBitLen(b) - LimbBits), LAMBDA s :
    LET bt == BSmall(BShr(b, s))
        rt == BSmall(BShr(r, s))
        lo == IF s = 0 THEN rt \div bt ELSE rt \div (bt + 1)
        hi == IF s = 0 THEN lo ELSE Min(Base - 1, (rt + 1) \div bt)
    IN  BDigit(r, b, lo, hi))

\* schoolbook division of limbs lo..hi of a, from the top, entering with the
\* remainder r of the limbs above: the quotient limbs hi..lo (top limb first)
\* and the remainder
RECURSIVE BDivRange(_, _, _, _, _)
BDivRange(a, b, lo, hi, r) ==
  IF lo = hi
  THEN LET r2 == BTrim(<<a[lo]>> \o r)
           d == BDigitOf(r2, b)
       IN  [top |-> <<d>>, r |-> BSub(r2, BMulLimb(b, d))]
  ELSE LET mid == (lo + hi) \div 2
           H == BDivRange(a, b, mid + 1, hi, r)
           L == BDivRange(a, b, lo, mid, H.r)
       IN  [top |-> H.top \o L.top, r |-> L.r]

Reverse(t) == [i \in 1..Len(t) |-> t[Len(t) + 1 - i]]

\* <<floor(a / b), a mod b>> for b > 0
BDivMod(a, b) ==
  IF a = << >> THEN << << >>, << >> >>
  ELSE Let(BDivRange(a, b, 1, Len(a), << >>), LAMBDA qr :
         << BTrim(Reverse(qr.top)), qr.r >>)

\* 10^p by repeated squaring
RECURSIVE BPow10(_)
BPow10(p) ==
  IF p = 0 THEN <<1>>
  ELSE LET h == BPow10(p \div 2)
       IN  IF p % 2 = 0 THEN BMul(h, h) ELSE BMulLimb(BMul(h, h), 10)

(***************************************************************************)
(* Python int: sign and magnitude, unbounded.                              *)
(***************************************************************************)
IntOf(n) == IF n < 0 THEN [s |-> 1, m |-> BN(0 - n)] ELSE [s |-> 0, m |-> BN(n)]

IMul(a, b) ==
  Let(BMul(a.m, b.m), LAMBDA p :
    [s |-> IF p = << >> THEN 0 ELSE (a.s + b.s) % 2, m |-> p])

\* -1, 0, 1 as a < b, a = b, a > b
ICmp(a, b) ==
  IF a.s # b.s THEN (IF a.s = 1 THEN -1 ELSE 1)
  ELSE IF a.s = 0 THEN BCmp(a.m, b.m) ELSE BCmp(b.m, a.m)

(***************************************************************************)
(* Python float: IEEE-754 binary64, round to nearest, ties to even.        *)
(* A finite value is (-1)^s * m * 2^e with m < 2^53 and EMin <= e <= EMax, *)
(* m >= 2^52 unless e = EMin (subnormals and zero).                        *)
(***************************************************************************)
SigBits == 53
EMin == -1074
EMax == 971

FZero(s) == [k |-> "fin", s |-> s, m |-> << >>, e |-> EMin]
FInf(s) == [k |-> "inf", s |-> s, m |-> << >>, e |-> 0]
FNaN == [k |-> "nan", s |-> 0, m |-> << >>, e |-> 0]

\* the double nearest to (-1)^s * (m + t) * 2^e, where 0 < t < 1 when sticky
\* and t = 0 otherwise (sticky only with at least SigBits + 2 bits in m)
FRound(s, m, e, sticky) ==
  IF m = << >> THEN FZero(s)
  ELSE
    Let(Max(BBitLen(m) - SigBits, EMin - e), LAMBDA sh :
      IF sh <= 0
      THEN IF e + sh > EMax THEN FInf(s)
           ELSE [k |-> "fin", s |-> s, m |-> BShl(m, 0 - sh), e |-> e + sh]
      ELSE
        \* q == the bits kept; q1 == q rounded half to even; carry == 1 when
        \* rounding up made one bit too many
        Let(BShr(m, sh), LAMBDA q :
          Let(IF /\ BBit(m, sh - 1) = 1
                 /\ (sticky \/ ~BLowZero(m, sh - 1) \/ BOdd(q))
              THEN BAdd(q, <<1>>) ELSE q, LAMBDA q1 :
            Let(IF BBitLen(q1) > SigBits THEN 1 ELSE 0, LAMBDA carry :
              IF e + sh + carry > EMax THEN FInf(s)
              ELSE [k |-> "fin", s |-> s, m |-> BShr(q1, carry),
                    e |-> e + sh + carry]))))

\* the double nearest to (-1)^s * (n / d) * 2^e, for d > 0
FRatio(s, n, d, e) ==
  IF n = << >> THEN FZero(s)
  ELSE
    Let(SigBits + 2 + Max(0, BBitLen(d) - BBitLen(n)), LAMBDA k :
      Let(BDivMod(BShl(n, k), d), LAMBDA qr :
        FRound(s, qr[1], e - k, qr[2] # << >>)))

\* int -> float; a magnitude past the largest double raises OverflowError
IntToFloat(n) ==
  Let(IF BBitLen(n.m) > EMax + SigBits + 1
      THEN FInf(n.s) ELSE FRound(n.s, n.m, 0, FALSE), LAMBDA f :
    IF f.k = "inf"
    THEN [ok |-> FALSE, exc |-> "OverflowError",
          msg |-> "int too large to convert to float"]
    ELSE [ok |-> TRUE, val |-> f])

\* a small int literal of the code as a float (always exact)
FInt(n) == FRound(IF n < 0 THEN 1 ELSE 0, BN(IF n < 0 THEN 0 - n ELSE n), 0, FALSE)

\* a decimal literal of the code, n / 10^p, as the parser rounds it
FDec(n, p) == FRatio(0, BN(n), BPow10(p), 0)

FIsZero(a) == a.k = "fin" /\ a.m = << >>

FNeg(a) == IF a.k = "nan" THEN a ELSE [a EXCEPT !.s = 1 - a.s]

FMul(a, b) ==
  LET s == (a.s + b.s) % 2
  IN  IF a.k = "nan" \/ b.k = "nan" THEN FNaN
      ELSE IF a.k = "inf" \/ b.k = "inf"
           THEN (IF FIsZero(a) \/ FIsZero(b) THEN FNaN ELSE FInf(s))
      ELSE FRound(s, BMul(a.m, b.m), a.e + b.e, FALSE)

\* a / b; b = 0 raises ZeroDivisionError
FDiv(a, b) ==
  LET s == (a.s + b.s) % 2
  IN  IF FIsZero(b)
      THEN [ok |-> FALSE, exc |-> "ZeroDivisionError", msg |-> "float division by zero"]
      ELSE [ok |-> TRUE, val |->
             IF a.k = "nan" \/ b.k = "nan" THEN FNaN
             ELSE IF a.k = "inf" THEN (IF b.k = "inf" THEN FNaN ELSE FInf(s))
             ELSE IF b.k = "inf" THEN FZero(s)
             ELSE FRatio(s, a.m, b.m, a.e - b.e)]

\* how far apart two exponents may be before the smaller operand only
\* decides the direction of rounding
FarApart == SigBits + 11

\* x + y for finite nonzero x, y with x.e >= y.e
FAddFinite(x, y) ==
  Let(x.e - y.e, LAMBDA d :
    IF d > FarApart
    THEN FRound(x.s, IF x.s = y.s THEN BShl(x.m, 3) ELSE BSub(BShl(x.m, 3), <<1>>),
                x.e - 3, TRUE)
    ELSE
      \* X == x.m at the exponent of y; c == which magnitude is the larger
      Let(BShl(x.m, d), LAMBDA X :
        Let(IF x.s = y.s THEN 1 ELSE BCmp(X, y.m), LAMBDA c :
          IF c = 0 THEN FZero(0)
          ELSE FRound(IF c > 0 THEN x.s ELSE y.s,
                      IF x.s = y.s THEN BAdd(X, y.m)
                      ELSE IF c > 0 THEN BSub(X, y.m) ELSE BSub(y.m, X),
                      y.e, FALSE))))

FAdd(a, b) ==
  IF a.k = "nan" \/ b.k = "nan" THEN FNaN
  ELSE IF a.k = "inf"
       THEN (IF b.k = "inf" /\ a.s # b.s THEN FNaN ELSE a)
  ELSE IF b.k = "inf" THEN b
  ELSE IF FIsZero(a) /\ FIsZero(b) THEN FZero(IF a.s = 1 /\ b.s = 1 THEN 1 ELSE 0)
  ELSE IF FIsZero(b) THEN a
  ELSE IF FIsZero(a) THEN b
  ELSE FAddFinite(IF a.e >= b.e THEN a ELSE b, IF a.e >= b.e THEN b ELSE a)

FSub(a, b) == FAdd(a, FNeg(b))

\* -1, 0, 1 as |a| < |b|, |a| = |b|, |a| > |b| for a, b not nan
FCmpMag(a, b) ==
  IF a.k = "inf" THEN (IF b.k = "inf" THEN 0 ELSE 1)
  ELSE IF b.k = "inf" THEN -1
  ELSE IF a.e # b.e THEN (IF a.e < b.e THEN -1 ELSE 1)
  ELSE BCmp(a.m, b.m)

\* a < b (false when either is nan; -0.0 = 0.0)
FLt(a, b) ==
  IF a.k = "nan" \/ b.k = "nan" THEN FALSE
  ELSE IF FIsZero(a) /\ FIsZero(b) THEN FALSE
  ELSE IF a.s # b.s THEN a.s = 1
  ELSE IF a.s = 0 THEN FCmpMag(a, b) < 0 ELSE FCmpMag(a, b) > 0

\* a == b
FEq(a, b) ==
  IF a.k = "nan" \/ b.k = "nan" THEN FALSE
  ELSE (FIsZero(a) /\ FIsZero(b)) \/ a = b

\* a <= b
FLe(a, b) == FLt(a, b) \/ FEq(a, b)

\* format(a, ".<d>f"): |a| * 10^d rounded half-even to an integer, with the sign
FFormat(a, d) ==
  IF a.k # "fin" THEN [k |-> a.k, s |-> a.s, n |-> << >>, d |-> d]
  ELSE
    Let(BMul(a.m, BPow10(d)), LAMBDA N :
      [k |-> "fin", s |-> a.s, d |-> d,
       n |-> IF a.e >= 0 THEN BShl(N, a.e)
             ELSE IF 0 - a.e > BBitLen(N) + 1 THEN << >>
             ELSE Let(BShr(N, 0 - a.e), LAMBDA q :
                    IF /\ BBit(N, 0 - a.e - 1) = 1
                       /\ (~BLowZero(N, 0 - a.e - 1) \/ BOdd(q))
                    THEN BAdd(q, <<1>>) ELSE q)])


(***************************************************************************)
(* Python str, where the code looks inside it: a sequence of one-character *)
(* strings.  The characters that occur are ASCII letters, digits, space,   *)
(* tab, and the punctuation of numbers.                                    *)
(***************************************************************************)
UpperLetters == <<"A", "B", "C", "D", "E", "F", "G", "H", "I", "J", "K", "L", "M",
                  "N", "O", "P", "Q", "R", "S", "T", "U", "V", "W", "X", "Y", "Z">>
LowerLetters == <<"a", "b", "c", "d", "e", "f", "g", "h", "i", "j", "k", "l", "m",
                  "n", "o", "p", "q", "r", "s", "t", "u", "v", "w", "x", "y", "z">>
DigitChars == <<"0", "1", "2", "3", "4", "5", "6", "7", "8", "9">>
Whitespace == {" ", "\t", "\n"}

Range(f) == {f[i] : i \in DOMAIN f}

LowerChar(c) ==
  IF c \in Range(UpperLetters)
  THEN LowerLetters[CHOOSE i \in DOMAIN UpperLetters : UpperLetters[i] = c]
  ELSE c

\* str.lower()
Lower(t) == [i \in 1..Len(t) |-> LowerChar(t[i])]

\* str.strip()
Strip(t) ==
  LET keep == {i \in 1..Len(t) : t[i] \notin Whitespace}
  IN  IF keep = {} THEN << >>
      ELSE SubSeq(t, CHOOSE i \in keep : \A j \in keep : i <= j,
                     CHOOSE i \in keep : \A j \in keep : i >= j)

\* sep.join(parts)
RECURSIVE Join(_, _)
Join(sep, parts) ==
  IF parts = << >> THEN << >>
  ELSE IF Len(parts) = 1 THEN parts[1]
  ELSE parts[1] \o sep \o Join(sep, Tail(parts))

IsDigit(c) == c \in Range(DigitChars)
DigitVal(c) == (CHOOSE i \in DOMAIN DigitChars : DigitChars[i] = c) - 1

\* a run of digits in which single underscores may separate digits
DigitRun(t) ==
  /\ t # << >>
  /\ \A i \in 1..Len(t) :
       \/ IsDigit(t[i])
       \/ /\ t[i] = "_"
          /\ 1 < i /\ i < Len(t)
          /\ IsDigit(t[i - 1]) /\ IsDigit(t[i + 1])

OnlyDigits(t) == SelectSeq(t, IsDigit)

\* the number a sequence of digits writes, by halves
RECURSIVE DigitsVal(_)
DigitsVal(t) ==
  IF t = << >> THEN << >>
  ELSE IF Len(t) = 1 THEN BN(DigitVal(t[1]))
  ELSE LET h == Len(t) \div 2
           lo == SubSeq(t, h + 1, Len(t))
       IN  BAdd(BMul(DigitsVal(SubSeq(t, 1, h)), BPow10(Len(lo))), DigitsVal(lo))

\* the same for the few digits of an exponent, as a plain integer
RECURSIVE SmallVal(_)
SmallVal(t) ==
  IF t = << >> THEN 0 ELSE 10 * SmallVal(SubSeq(t, 1, Len(t) - 1)) + DigitVal(t[Len(t)])

HasSign(t) == t # << >> /\ t[1] \in {"+", "-"}
Unsigned(t) == IF HasSign(t) THEN Tail(t) ELSE t
SignOf(t) == IF t # << >> /\ t[1] = "-" THEN 1 ELSE 0

\* the first position of t holding a character of S, or 0
FirstIn(t, S) ==
  LET at == {i \in 1..Len(t) : t[i] \in S}
  IN  IF at = {} THEN 0 ELSE CHOOSE i \in at : \A j \in at : i <= j

Quote(t) == <<"'">> \o t \o <<"'">>

\* int(text)
ParseInt(text) ==
  Let(Strip(text), LAMBDA t :
    LET body == Unsigned(t)
    IN  IF DigitRun(body)
        THEN LET m == DigitsVal(OnlyDigits(body))
             IN  [ok |-> TRUE,
                  val |-> [s |-> IF m = << >> THEN 0 ELSE SignOf(t), m |-> m]]
        ELSE [ok |-> FALSE, exc |-> "ValueError",
              msg |-> <<"invalid literal for int() with base 10: ", Quote(text)>>])

\* float(text): t is the stripped text, body its unsigned part, split at
\* ePos into mantissa and exponent; the mantissa is split at dot into its
\* integer digits ip and its fraction digits fp; x is the power of ten that
\* scales the digits, D the number the digits write
ParseFloat(text) ==
  Let(Strip(text), LAMBDA t :
  Let(Unsigned(t), LAMBDA body :
  Let(Lower(body), LAMBDA word :
  Let(FirstIn(body, {"e", "E"}), LAMBDA ePos :
  Let(IF ePos = 0 THEN body ELSE SubSeq(body, 1, ePos - 1), LAMBDA mant :
  Let(IF ePos = 0 THEN << >> ELSE SubSeq(body, ePos + 1, Len(body)), LAMBDA expo :
  Let(FirstIn(mant, {"."}), LAMBDA dot :
  Let(IF dot = 0 THEN mant ELSE SubSeq(mant, 1, dot - 1), LAMBDA ip :
  Let(IF dot = 0 THEN << >> ELSE SubSeq(mant, dot + 1, Len(mant)), LAMBDA fp :
  Let((IF SignOf(expo) = 1 THEN -1 ELSE 1) * SmallVal(OnlyDigits(Unsigned(expo)))
      - Len(OnlyDigits(fp)), LAMBDA x :
    IF word \in {<<"i", "n", "f">>, <<"i", "n", "f", "i", "n", "i", "t", "y">>}
    THEN [ok |-> TRUE, val |-> FInf(SignOf(t))]
    ELSE IF word = <<"n", "a", "n">> THEN [ok |-> TRUE, val |-> FNaN]
    ELSE IF /\ ip # << >> \/ fp # << >>
            /\ ip = << >> \/ DigitRun(ip)
            /\ fp = << >> \/ DigitRun(fp)
            /\ ePos = 0 \/ DigitRun(Unsigned(expo))
    THEN [ok |-> TRUE,
          val |-> Let(DigitsVal(OnlyDigits(ip) \o OnlyDigits(fp)), LAMBDA D :
                    IF x >= 0 THEN FRound(SignOf(t), BMul(D, BPow10(x)), 0, FALSE)
                    ELSE FRatio(SignOf(t), D, BPow10(0 - x), 0))]
    ELSE [ok |-> FALSE, exc |-> "ValueError",
          msg |-> <<"could not convert string to float: ", Quote(text)>>]))))))))))


(***************************************************************************)
(* Outcomes of a call: a value, or a raised exception with its message     *)
(* (the parts that make up str(e)).                                        *)
(***************************************************************************)
Ok(v) == [ok |-> TRUE, val |-> v]
Raise(exc, msg) == [ok |-> FALSE, exc |-> exc, msg |-> msg]
NoneVal == [none |-> TRUE]
Some(v) == [some |-> v]

(***************************************************************************)
(* The state.  One of the two programs runs (mode); each has its own       *)
(* module-level ACTIVITY_FACTORS.  The locals of main() are pc, sex, age,  *)
(* w_unit, weight, h_unit, height, activity, with stdout what was printed, *)
(* stderr the uncaught exception, retries the answers refused so far.      *)
(* The widgets of TDEEApp are the                                          *)
(* *_var and *_label variables, dialog the open modal error box.  person,  *)
(* w_kg, h_cm are the Person last constructed and the values last passed   *)
(* to the BMR formula.  typed remembers the numbers behind the texts of a  *)
(* filled-in form; arg and ret are the argument and results of the         *)
(* functions called directly.                                              *)
(***************************************************************************)
VARIABLES mode, ACTIVITY_FACTORS, gui_ACTIVITY_FACTORS,
          pc, sex, age, w_unit, weight, h_unit, height, activity, stdout, stderr,
          retries,
          sex_var, age_var, weight_var, height_var, weight_unit_var,
          height_unit_var, activity_var, bmr_label, tdee_label, ref_label, dialog,
          person, w_kg, h_cm, typed, arg, ret

tables == <<ACTIVITY_FACTORS, gui_ACTIVITY_FACTORS>>
cli_vars == <<pc, sex, age, w_unit, weight, h_unit, height, activity, stdout, stderr,
              retries>>
form_vars == <<sex_var, age_var, weight_var, height_var, weight_unit_var,
               height_unit_var, activity_var>>
label_vars == <<bmr_label, tdee_label, ref_label>>
gui_vars == <<form_vars, label_vars, dialog>>
local_vars == <<person, w_kg, h_cm>>
call_vars == <<arg, ret>>
vars == <<mode, tables, cli_vars, gui_vars, local_vars, typed, call_vars>>

(***************************************************************************)
(* Conversions and core formulas (the same text in both files).            *)
(***************************************************************************)
KG_PER_LB == FDec(45359237, 8)
CM_PER_INCH == FDec(254, 2)

\* a variant with the factor cut to four decimals
lbs_to_kg_short(lbs) == FMul(lbs, FDec(4536, 4))

lbs_to_kg(lbs) == FMul(lbs, KG_PER_LB)
kg_to_lbs(kg) == FDiv(kg, KG_PER_LB).val
inches_to_cm(inches) == FMul(inches, CM_PER_INCH)
cm_to_inches(cm) == FDiv(cm, CM_PER_INCH).val

\* a variant with the age coefficient 50
bmr_age_coefficient_50(sex_, weight_kg, height_cm, age_years) ==
  Let(Lower(sex_), LAMBDA s :
    IF s \notin {<<"m">>, <<"f">>}
    THEN Raise("ValueError", <<"sex must be 'm' or 'f'">>)
    ELSE
      Let(IntToFloat(IMul(IntOf(50), age_years)), LAMBDA years50 :
        IF ~years50.ok THEN Raise(years50.exc, <<years50.msg>>)
        ELSE
          Let(FSub(FAdd(FMul(FInt(10), weight_kg), FMul(FDec(625, 2), height_cm)),
                   years50.val), LAMBDA base :
            Ok(IF s = <<"m">> THEN FAdd(base, FInt(5)) ELSE FSub(base, FInt(161))))))

bmr_mifflin_st_jeor(sex_, weight_kg, height_cm, age_years) ==
  Let(Lower(sex_), LAMBDA s :
    IF s \notin {<<"m">>, <<"f">>}
    THEN Raise("ValueError", <<"sex must be 'm' or 'f'">>)
    ELSE
      Let(IntToFloat(IMul(IntOf(5), age_years)), LAMBDA years5 :
        IF ~years5.ok THEN Raise(years5.exc, <<years5.msg>>)
        ELSE
          Let(FSub(FAdd(FMul(FInt(10), weight_kg), FMul(FDec(625, 2), height_cm)),
                   years5.val), LAMBDA base :
            Ok(IF s = <<"m">> THEN FAdd(base, FInt(5)) ELSE FSub(base, FInt(161))))))

\* firingrange.ACTIVITY_FACTORS as the module defines it (a dict keeps its order)
CliFactors ==
  << [key |-> <<"s", "e", "d", "e", "n", "t", "a", "r", "y">>, factor |-> FDec(12, 1)],
     [key |-> <<"l", "i", "g", "h", "t">>, factor |-> FDec(1375, 3)],
     [key |-> <<"m", "o", "d", "e", "r", "a", "t", "e">>, factor |-> FDec(155, 2)],
     [key |-> <<"v", "e", "r", "y">>, factor |-> FDec(1725, 3)],
     [key |-> <<"a", "t", "h", "l", "e", "t", "e">>, factor |-> FDec(19, 1)] >>

\* a variant of the window's table with the last multiplier 2.0
GuiFactors_athlete_2 ==
  << [key |-> "Sedentary (little/no exercise)", factor |-> FDec(12, 1)],
     [key |-> "Light (1\\u20133 days/wk)", factor |-> FDec(1375, 3)],
     [key |-> "Moderate (3\\u20135 days/wk)", factor |-> FDec(155, 2)],
     [key |-> "Very (6\\u20137 days/wk)", factor |-> FDec(1725, 3)],
     [key |-> "Athlete (very hard/physical job)", factor |-> FInt(2)] >>

\* tdee_gui.ACTIVITY_FACTORS; \\u2013 stands for the en dash of the labels
GuiFactors ==
  << [key |-> "Sedentary (little/no exercise)", factor |-> FDec(12, 1)],
     [key |-> "Light (1\\u20133 days/wk)", factor |-> FDec(1375, 3)],
     [key |-> "Moderate (3\\u20135 days/wk)", factor |-> FDec(155, 2)],
     [key |-> "Very (6\\u20137 days/wk)", factor |-> FDec(1725, 3)],
     [key |-> "Athlete (very hard/physical job)", factor |-> FDec(19, 1)] >>

\* list(d.keys()), and d[key] with its KeyError
Keys(d) == [i \in DOMAIN d |-> d[i].key]
Lookup(d, key) ==
  Let({i \in DOMAIN d : d[i].key = key}, LAMBDA at :
    IF at = {} THEN Raise("KeyError", <<key>>)
    ELSE Ok(d[CHOOSE i \in at : TRUE].factor))

\* a variant that looks the key up as given
tdee_from_bmr_as_given(bmr, activity_key) ==
  Let(Lookup(ACTIVITY_FACTORS, activity_key), LAMBDA factor :
    IF ~factor.ok
    THEN Raise("ValueError", <<"activity must be one of: ">>
                               \o <<Join(<<",", " ">>, Keys(ACTIVITY_FACTORS))>>)
    ELSE Ok(FMul(bmr, factor.val)))

tdee_from_bmr(bmr, activity_key) ==
  Let(Lookup(ACTIVITY_FACTORS, Lower(activity_key)), LAMBDA factor :
    IF ~factor.ok
    THEN Raise("ValueError", <<"activity must be one of: ">>
                               \o <<Join(<<",", " ">>, Keys(ACTIVITY_FACTORS))>>)
    ELSE Ok(FMul(bmr, factor.val)))

\* a variant that converts a weight in lb twice
Person_weight_kg_twice(self) ==
  IF Lower(self.weight_unit) = <<"k", "g">> THEN self.weight
  ELSE lbs_to_kg(lbs_to_kg(self.weight))

\* firingrange.Person
Person_weight_kg(self) ==
  IF Lower(self.weight_unit) = <<"k", "g">> THEN self.weight ELSE lbs_to_kg(self.weight)

Person_height_cm(self) ==
  IF Lower(self.height_unit) = <<"c", "m">> THEN self.height ELSE inches_to_cm(self.height)

\* tdee_gui.Person
gui_Person_weight_kg(self) ==
  IF self.weight_unit = <<"k", "g">> THEN self.weight ELSE lbs_to_kg(self.weight)

gui_Person_height_cm(self) ==
  IF self.height_unit = <<"c", "m">> THEN self.height ELSE inches_to_cm(self.height)


(***************************************************************************)
(* tdee_gui.py: TDEEApp.                                                   *)
(***************************************************************************)
Placeholder == [placeholder |-> "\\u2014"]

BmrText == "BMR (kcal/day): "
TdeeText == "TDEE (kcal/day): "
RefText == "Reference: "

\* the sanity checks of compute()
AgeMin == 14
AgeMax == 90
KgMin == 30
KgMax == 300
LbMin == 66
LbMax == 660
CmMin == 120
CmMax == 220
InMin == 47
InMax == 87

KG == <<"k", "g">>
LB == <<"l", "b">>
CM == <<"c", "m">>
IN_ == <<"i", "n">>

\* a variant with the limits excluded
Between_exclusive(lo, x, hi) == FLt(FInt(lo), x) /\ FLt(x, FInt(hi))

\* lo <= x <= hi for a float x and int literals lo, hi
Between(lo, x, hi) == FLe(FInt(lo), x) /\ FLe(x, FInt(hi))

\* the message of the first sanity check that fails, or << >>
sanity_checks(age_, weight_, height_, wu, hu) ==
  IF ~(ICmp(IntOf(AgeMin), age_) <= 0 /\ ICmp(age_, IntOf(AgeMax)) <= 0)
  THEN <<"Age must be between 14 and 90.">>
  ELSE IF wu = KG /\ ~Between(KgMin, weight_, KgMax)
  THEN <<"Weight in kg must be between 30 and 300.">>
  ELSE IF wu = LB /\ ~Between(LbMin, weight_, LbMax)
  THEN <<"Weight in lb must be between 66 and 660.">>
  ELSE IF hu = CM /\ ~Between(CmMin, height_, CmMax)
  THEN <<"Height in cm must be between 120 and 220.">>
  ELSE IF hu = IN_ /\ ~Between(InMin, height_, InMax)
  THEN <<"Height in inches must be between 47 and 87.">>
  ELSE << >>

\* what the try block of compute() does with the present form: the exception
\* it raises (or NoneVal), the Person it constructed and the locals it bound
\* before that (or NoneVal), and the texts it gave the three labels (or NoneVal
\* for a label it did not reach)
compute_try ==
  LET early(e) == [exc |-> e, person |-> NoneVal, w_kg |-> NoneVal, h_cm |-> NoneVal,
                   bmr_label |-> NoneVal, tdee_label |-> NoneVal, ref_label |-> NoneVal]
  IN
  Let(ParseInt(age_var), LAMBDA a :
    IF ~a.ok THEN early(a) ELSE
  Let(ParseFloat(weight_var), LAMBDA w :
    IF ~w.ok THEN early(w) ELSE
  Let(ParseFloat(height_var), LAMBDA h :
    IF ~h.ok THEN early(h) ELSE
  Let(sanity_checks(a.val, w.val, h.val, weight_unit_var, height_unit_var), LAMBDA bad :
    IF bad # << >> THEN early(Raise("ValueError", bad)) ELSE
  Let([sex |-> sex_var, age |-> a.val,
       weight |-> w.val, weight_unit |-> weight_unit_var,
       height |-> h.val, height_unit |-> height_unit_var,
       activity_label |-> activity_var], LAMBDA p :
  Let(gui_Person_weight_kg(p), LAMBDA wk :
  Let(gui_Person_height_cm(p), LAMBDA hc :
    LET late(e) == [exc |-> e, person |-> Some(p), w_kg |-> Some(wk), h_cm |-> Some(hc),
                    bmr_label |-> NoneVal, tdee_label |-> NoneVal,
                    ref_label |-> NoneVal]
    IN
  Let(bmr_mifflin_st_jeor(p.sex, wk, hc, p.age), LAMBDA bmr :
    IF ~bmr.ok THEN late(bmr) ELSE
  Let(Lookup(gui_ACTIVITY_FACTORS, activity_var), LAMBDA factor :
    IF ~factor.ok THEN late(factor) ELSE
    [exc |-> NoneVal, person |-> Some(p), w_kg |-> Some(wk), h_cm |-> Some(hc),
     bmr_label |-> Some([text |-> BmrText, val |-> FFormat(bmr.val, 0)]),
     tdee_label |-> Some([text |-> TdeeText,
                          val |-> FFormat(FMul(bmr.val, factor.val), 0)]),
     ref_label |-> Some([text |-> RefText,
                         val |-> [weight_kg |-> FFormat(wk, 1),
                                  weight_lb |-> FFormat(kg_to_lbs(wk), 1),
                                  height_cm |-> FFormat(hc, 1),
                                  height_in |-> FFormat(cm_to_inches(hc), 1),
                                  factor |-> FFormat(factor.val, 3)]])])))))))))

\* the except clauses of compute(): the error box for an exception
showerror(e) ==
  IF e.exc = "ValueError"
  THEN [title |-> "Invalid input", message |-> e.msg]
  ELSE [title |-> "Error", message |-> <<"Something went wrong:\n">> \o e.msg]

\* a variant in which a label not reached goes back to the placeholder
Keep_blank(old, new) ==
  IF new = NoneVal THEN [text |-> old.text, val |-> Placeholder] ELSE new.some

Keep(old, new) == IF new = NoneVal THEN old ELSE new.some

\* the Compute button
compute ==
  /\ mode = "gui" /\ dialog = NoneVal
  /\ \E r \in {compute_try} :
         /\ bmr_label' = Keep(bmr_label, r.bmr_label)
         /\ tdee_label' = Keep(tdee_label, r.tdee_label)
         /\ ref_label' = Keep(ref_label, r.ref_label)
         /\ person' = IF r.person = NoneVal THEN person ELSE r.person
         /\ w_kg' = IF r.w_kg = NoneVal THEN w_kg ELSE r.w_kg
         /\ h_cm' = IF r.h_cm = NoneVal THEN h_cm ELSE r.h_cm
         /\ dialog' = IF r.exc = NoneVal THEN NoneVal ELSE showerror(r.exc)
  /\ UNCHANGED <<mode, tables, cli_vars, form_vars, typed, call_vars>>

\* a variant of Clear that leaves the activity and the reference line alone
clear_partly ==
  /\ mode = "gui" /\ dialog = NoneVal
  /\ age_var' = << >>
  /\ weight_var' = << >>
  /\ height_var' = << >>
  /\ sex_var' = <<"m">>
  /\ weight_unit_var' = KG
  /\ height_unit_var' = CM
  /\ bmr_label' = [text |-> BmrText, val |-> Placeholder]
  /\ tdee_label' = [text |-> TdeeText, val |-> Placeholder]
  /\ UNCHANGED <<activity_var, ref_label>>
  /\ UNCHANGED <<mode, tables, cli_vars, dialog, local_vars, typed, call_vars>>

\* the Clear button
clear ==
  /\ mode = "gui" /\ dialog = NoneVal
  /\ age_var' = << >>
  /\ weight_var' = << >>
  /\ height_var' = << >>
  /\ sex_var' = <<"m">>
  /\ weight_unit_var' = KG
  /\ height_unit_var' = CM
  /\ activity_var' = Keys(gui_ACTIVITY_FACTORS)[2]
  /\ bmr_label' = [text |-> BmrText, val |-> Placeholder]
  /\ tdee_label' = [text |-> TdeeText, val |-> Placeholder]
  /\ ref_label' = [text |-> RefText, val |-> Placeholder]
  /\ UNCHANGED <<mode, tables, cli_vars, dialog, local_vars, typed, call_vars>>

\* the user closes the error box
DismissDialog ==
  /\ mode = "gui" /\ dialog # NoneVal
  /\ dialog' = NoneVal
  /\ UNCHANGED <<mode, tables, cli_vars, form_vars, label_vars, local_vars, typed,
                 call_vars>>

\* TDEEApp.__init__: the widgets as constructed
TDEEApp_init ==
  /\ sex_var = <<"m">>
  /\ age_var = << >>
  /\ weight_var = << >>
  /\ weight_unit_var = KG
  /\ height_var = << >>
  /\ height_unit_var = CM
  /\ activity_var = Keys(gui_ACTIVITY_FACTORS)[2]
  /\ bmr_label = [text |-> BmrText, val |-> Placeholder]
  /\ tdee_label = [text |-> TdeeText, val |-> Placeholder]
  /\ ref_label = [text |-> RefText, val |-> Placeholder]
  /\ dialog = NoneVal


(***************************************************************************)
(* The user at the window.  The three comboboxes are read-only: a value is *)
(* picked from the list.  The three entries take any text.                 *)
(***************************************************************************)
\* texts typed into the entries one field at a time
AgeTexts == { << >>, <<"2", "5">> }
WeightTexts == { <<"x">>, <<"7", "0">> }
HeightTexts == { <<"7", "0">>, <<"1", "7", "0">> }

SelectSex ==
  /\ mode = "gui" /\ dialog = NoneVal
  /\ \E v \in {<<"m">>, <<"f">>} : sex_var' = v
  /\ UNCHANGED <<mode, tables, cli_vars, age_var, weight_var, height_var,
                 weight_unit_var, height_unit_var, activity_var, label_vars, dialog,
                 local_vars, typed, call_vars>>

SelectWeightUnit ==
  /\ mode = "gui" /\ dialog = NoneVal
  /\ \E v \in {KG, LB} : weight_unit_var' = v
  /\ UNCHANGED <<mode, tables, cli_vars, sex_var, age_var, weight_var, height_var,
                 height_unit_var, activity_var, label_vars, dialog, local_vars, typed,
                 call_vars>>

SelectHeightUnit ==
  /\ mode = "gui" /\ dialog = NoneVal
  /\ \E v \in {CM, IN_} : height_unit_var' = v
  /\ UNCHANGED <<mode, tables, cli_vars, sex_var, age_var, weight_var, height_var,
                 weight_unit_var, activity_var, label_vars, dialog, local_vars, typed,
                 call_vars>>

\* (the first and the last entry of the list stand for the others)
SelectActivity ==
  /\ mode = "gui" /\ dialog = NoneVal
  /\ \E i \in {1, Len(gui_ACTIVITY_FACTORS)} :
       activity_var' = Keys(gui_ACTIVITY_FACTORS)[i]
  /\ UNCHANGED <<mode, tables, cli_vars, sex_var, age_var, weight_var, height_var,
                 weight_unit_var, height_unit_var, label_vars, dialog, local_vars,
                 typed, call_vars>>

EditAge ==
  /\ mode = "gui" /\ dialog = NoneVal
  /\ \E t \in AgeTexts : age_var' = t
  /\ UNCHANGED <<mode, tables, cli_vars, sex_var, weight_var, height_var,
                 weight_unit_var, height_unit_var, activity_var, label_vars, dialog,
                 local_vars, typed, call_vars>>

EditWeight ==
  /\ mode = "gui" /\ dialog = NoneVal
  /\ \E t \in WeightTexts : weight_var' = t
  /\ UNCHANGED <<mode, tables, cli_vars, sex_var, age_var, height_var,
                 weight_unit_var, height_unit_var, activity_var, label_vars, dialog,
                 local_vars, typed, call_vars>>

EditHeight ==
  /\ mode = "gui" /\ dialog = NoneVal
  /\ \E t \in HeightTexts : height_var' = t
  /\ UNCHANGED <<mode, tables, cli_vars, sex_var, age_var, weight_var,
                 weight_unit_var, height_unit_var, activity_var, label_vars, dialog,
                 local_vars, typed, call_vars>>

GuiNext ==
  \/ SelectSex \/ SelectWeightUnit \/ SelectHeightUnit \/ SelectActivity
  \/ EditAge \/ EditWeight \/ EditHeight
  \/ compute \/ clear \/ DismissDialog

(***************************************************************************)
(* A form filled in at once with numbers at and just past the limits of    *)
(* the sanity checks: ages as integers, weights and heights to one         *)
(* decimal.  typed keeps the numbers (weights and heights in tenths).      *)
(***************************************************************************)
Margin == 1

\* str(n) for n >= 0
RECURSIVE DecText(_)
DecText(n) ==
  IF n < 10 THEN <<DigitChars[n + 1]>>
  ELSE DecText(n \div 10) \o <<DigitChars[(n % 10) + 1]>>

\* t tenths written with one decimal
TenthsText(t) == DecText(t \div 10) \o <<".">> \o <<DigitChars[(t % 10) + 1]>>

\* lo - Margin .. lo and hi .. hi + Margin
AtLimits(lo, hi) == ((lo - Margin)..lo) \cup (hi..(hi + Margin))

TypedWeights(u) ==
  IF u = KG THEN AtLimits(10 * KgMin, 10 * KgMax) ELSE AtLimits(10 * LbMin, 10 * LbMax)
TypedHeights(u) ==
  IF u = CM THEN AtLimits(10 * CmMin, 10 * CmMax) ELSE AtLimits(10 * InMin, 10 * InMax)

FillForm ==
  /\ mode = "gui" /\ dialog = NoneVal /\ typed = NoneVal
  /\ \E wu \in {KG, LB}, hu \in {CM, IN_} :
       \E a \in AtLimits(AgeMin, AgeMax), w \in TypedWeights(wu), h \in TypedHeights(hu) :
         /\ typed' = [age |-> a, weight |-> w, height |-> h]
         /\ age_var' = DecText(a)
         /\ weight_var' = TenthsText(w)
         /\ height_var' = TenthsText(h)
         /\ weight_unit_var' = wu
         /\ height_unit_var' = hu
  /\ \E v \in {<<"m">>, <<"f">>} : sex_var' = v
  /\ \E v \in Range(Keys(gui_ACTIVITY_FACTORS)) : activity_var' = v
  /\ UNCHANGED <<mode, tables, cli_vars, label_vars, dialog, local_vars, call_vars>>

RangeNext == FillForm \/ compute \/ DismissDialog


(***************************************************************************)
(* firingrange.py: the helpers of the prompt loop and main().  One step of *)
(* main() is one line read by input(): the answer is accepted and main()   *)
(* runs on to the next input(), or it is refused and the helper prints its *)
(* message and asks again.                                                 *)
(***************************************************************************)
MaxRetries == 2
HugeZeros == 309

\* one pass of the loop of ask_float / ask_int / ask_choice on the line read
ask_float(line) ==
  Let(ParseFloat(Strip(line)), LAMBDA r :
    IF r.ok THEN r ELSE Raise("again", <<"Please enter a number.">>))

ask_int(line) ==
  Let(ParseInt(Strip(line)), LAMBDA r :
    IF r.ok THEN r ELSE Raise("again", <<"Please enter an integer.">>))

ask_choice(line, choices) ==
  LET choices_lower == [i \in DOMAIN choices |-> Lower(choices[i])]
  IN  Let(Lower(Strip(line)), LAMBDA val :
        IF val \in Range(choices_lower) THEN Ok(val)
        ELSE Raise("again", <<"Please choose one of: ", Join(<<",", " ">>, choices)>>))

Printed(parts) == [what |-> "print", text |-> parts]
Asked(id, parts) == [what |-> "input", id |-> id, text |-> parts]

Banner == Printed(<<"=== Mifflin\\u2013St Jeor Daily Energy Expenditure Tool ===">>)
PromptSex == Asked("sex", <<"Sex (m/f): ">>)
PromptAge == Asked("age", <<"Age (years): ">>)
PromptWeightUnit == Asked("w_unit", <<"Is your weight in kg or lb? (kg/lb): ">>)
PromptWeight(u) == Asked("weight", <<"Weight (", u, "): ">>)
PromptHeightUnit == Asked("h_unit", <<"Is your height in cm or in? (cm/in): ">>)
PromptHeight(u) == Asked("height", <<"Height (", u, "): ">>)
PromptActivity ==
  Asked("activity", <<"Choose activity (sedentary/light/moderate/very/athlete): ">>)
Legend ==
  << Printed(<<"\nActivity levels:">>),
     Printed(<<"  sedentary = little/no exercise">>),
     Printed(<<"  light     = 1\\u20133 days/wk">>),
     Printed(<<"  moderate  = 3\\u20135 days/wk">>),
     Printed(<<"  very      = 6\\u20137 days/wk">>),
     Printed(<<"  athlete   = very hard exercise/physical job">>) >>
ResultsHeader == Printed(<<"\n--- Results ---">>)

\* the lines the user may type at each prompt
SexLines == { <<"m">>, <<" ", "F">>, << >> }
AgeLines == { <<"2", "5">>, <<"2", ".", "5">>, <<"1">> \o [i \in 1..HugeZeros |-> "0"] }
WeightUnitLines == { <<"k", "g">>, <<"L", "B">>, <<"l", "b", "s">> }
WeightLines == { <<"1", "5", "4", ".", "5">>, <<"x">> }
HeightUnitLines == { <<"c", "m">>, <<"I", "n", " ">>, <<"f", "t">> }
HeightLines == { <<"6", "9", ".", "5">>, <<"1", ",", "7">> }
ActivityLines == { <<"s", "e", "d", "e", "n", "t", "a", "r", "y">>,
                   <<" ", "A", "t", "h", "l", "e", "t", "e">>,
                   <<"c", "o", "u", "c", "h">> }

\* the helper refuses the line: its message, then the same prompt again
Refuse(r, prompt) ==
  /\ retries < MaxRetries
  /\ retries' = retries + 1
  /\ stdout' = stdout \o <<Printed(r.msg), prompt>>
  /\ UNCHANGED <<pc, sex, age, w_unit, weight, h_unit, height, activity, stderr,
                 local_vars>>

AskSex ==
  /\ mode = "cli" /\ pc = "sex"
  /\ \E line \in SexLines :
       \E r \in {ask_choice(line, <<<<"m">>, <<"f">>>>)} :
           IF r.ok
           THEN /\ sex' = r.val
                /\ pc' = "age"
                /\ stdout' = stdout \o <<PromptAge>>
                /\ UNCHANGED <<age, w_unit, weight, h_unit, height, activity, stderr,
                               retries, local_vars>>
           ELSE Refuse(r, PromptSex)
  /\ UNCHANGED <<mode, tables, gui_vars, typed, call_vars>>

AskAge ==
  /\ mode = "cli" /\ pc = "age"
  /\ \E line \in AgeLines :
       \E r \in {ask_int(line)} :
           IF r.ok
           THEN /\ age' = r.val
                /\ pc' = "w_unit"
                /\ stdout' = stdout \o <<PromptWeightUnit>>
                /\ UNCHANGED <<sex, w_unit, weight, h_unit, height, activity, stderr,
                               retries, local_vars>>
           ELSE Refuse(r, PromptAge)
  /\ UNCHANGED <<mode, tables, gui_vars, typed, call_vars>>

AskWeightUnit ==
  /\ mode = "cli" /\ pc = "w_unit"
  /\ \E line \in WeightUnitLines :
       \E r \in {ask_choice(line, <<KG, LB>>)} :
           IF r.ok
           THEN /\ w_unit' = r.val
                /\ pc' = "weight"
                /\ stdout' = stdout \o <<PromptWeight(r.val)>>
                /\ UNCHANGED <<sex, age, weight, h_unit, height, activity, stderr,
                               retries, local_vars>>
           ELSE Refuse(r, PromptWeightUnit)
  /\ UNCHANGED <<mode, tables, gui_vars, typed, call_vars>>

AskWeight ==
  /\ mode = "cli" /\ pc = "weight"
  /\ \E line \in WeightLines :
       \E r \in {ask_float(line)} :
           IF r.ok
           THEN /\ weight' = r.val
                /\ pc' = "h_unit"
                /\ stdout' = stdout \o <<PromptHeightUnit>>
                /\ UNCHANGED <<sex, age, w_unit, h_unit, height, activity, stderr,
                               retries, local_vars>>
           ELSE Refuse(r, PromptWeight(w_unit))
  /\ UNCHANGED <<mode, tables, gui_vars, typed, call_vars>>

AskHeightUnit ==
  /\ mode = "cli" /\ pc = "h_unit"
  /\ \E line \in HeightUnitLines :
       \E r \in {ask_choice(line, <<CM, IN_>>)} :
           IF r.ok
           THEN /\ h_unit' = r.val
                /\ pc' = "height"
                /\ stdout' = stdout \o <<PromptHeight(r.val)>>
                /\ UNCHANGED <<sex, age, w_unit, weight, height, activity, stderr,
                               retries, local_vars>>
           ELSE Refuse(r, PromptHeightUnit)
  /\ UNCHANGED <<mode, tables, gui_vars, typed, call_vars>>

AskHeight ==
  /\ mode = "cli" /\ pc = "height"
  /\ \E line \in HeightLines :
       \E r \in {ask_float(line)} :
           IF r.ok
           THEN /\ height' = r.val
                /\ pc' = "activity"
                /\ stdout' = stdout \o Legend \o <<PromptActivity>>
                /\ UNCHANGED <<sex, age, w_unit, weight, h_unit, activity, stderr,
                               retries, local_vars>>
           ELSE Refuse(r, PromptHeight(h_unit))
  /\ UNCHANGED <<mode, tables, gui_vars, typed, call_vars>>

\* main() from the Person to the end, for the activity just chosen: the
\* exception that ends it (or NoneVal), the locals bound, the lines printed
main_compute(act) ==
  Let([sex |-> sex, age |-> age, weight |-> weight, weight_unit |-> w_unit,
       height |-> height, height_unit |-> h_unit, activity |-> act], LAMBDA p :
  Let(Person_weight_kg(p), LAMBDA wk :
  Let(Person_height_cm(p), LAMBDA hc :
    LET end(e, lines) ==
          [exc |-> e, person |-> p, w_kg |-> wk, h_cm |-> hc, printed |-> lines]
    IN
  Let(bmr_mifflin_st_jeor(p.sex, wk, hc, p.age), LAMBDA bmr :
    IF ~bmr.ok THEN end(bmr, << >>) ELSE
  Let(tdee_from_bmr(bmr.val, p.activity), LAMBDA tdee :
    IF ~tdee.ok THEN end(tdee, << >>) ELSE
  Let(<< ResultsHeader,
         [what |-> "print", text |-> <<"BMR (kcal/day): ">>,
          val |-> <<FFormat(bmr.val, 0)>>],
         [what |-> "print", text |-> <<"TDEE (kcal/day): ">>,
          val |-> <<FFormat(tdee.val, 0)>>],
         Printed(<<"\nFor reference:">>),
         [what |-> "print", text |-> <<"  Weight: ", " kg  (", " lb)">>,
          val |-> <<FFormat(wk, 1), FFormat(kg_to_lbs(wk), 1)>>],
         [what |-> "print", text |-> <<"  Height: ", " cm  (", " in)">>,
          val |-> <<FFormat(hc, 1), FFormat(cm_to_inches(hc), 1)>>] >>, LAMBDA lines :
  Let(Lookup(ACTIVITY_FACTORS, act), LAMBDA factor :
    IF ~factor.ok THEN end(factor, lines)
    ELSE end(NoneVal,
             lines \o << [what |-> "print", text |-> <<"  Activity factor used: ">>,
                           val |-> <<FFormat(factor.val, 3)>>] >>))))))))

AskActivity ==
  /\ mode = "cli" /\ pc = "activity"
  /\ \E line \in ActivityLines :
       \E r \in {ask_choice(line, Keys(ACTIVITY_FACTORS))} :
           IF r.ok
           THEN \E m \in {main_compute(r.val)} :
                  /\ activity' = r.val
                  /\ person' = Some(m.person)
                  /\ w_kg' = Some(m.w_kg)
                  /\ h_cm' = Some(m.h_cm)
                  /\ stdout' = stdout \o m.printed
                  /\ stderr' = m.exc
                  /\ pc' = IF m.exc = NoneVal THEN "done" ELSE "crashed"
                  /\ UNCHANGED <<sex, age, w_unit, weight, h_unit, height, retries>>
           ELSE Refuse(r, PromptActivity)
  /\ UNCHANGED <<mode, tables, gui_vars, typed, call_vars>>

CliNext ==
  \/ AskSex \/ AskAge \/ AskWeightUnit \/ AskWeight \/ AskHeightUnit \/ AskHeight
  \/ AskActivity

\* main() up to its first input()
main_init ==
  /\ pc = "sex"
  /\ sex = NoneVal /\ age = NoneVal /\ w_unit = NoneVal /\ weight = NoneVal
  /\ h_unit = NoneVal /\ height = NoneVal /\ activity = NoneVal
  /\ stdout = <<Banner, PromptSex>>
  /\ stderr = NoneVal
  /\ retries = 0

(***************************************************************************)
(* The repository: one of its two programs is started.                     *)
(***************************************************************************)
\* both modules imported, nothing run yet
Loaded ==
  /\ ACTIVITY_FACTORS = CliFactors
  /\ gui_ACTIVITY_FACTORS = GuiFactors
  /\ main_init
  /\ TDEEApp_init
  /\ person = NoneVal /\ w_kg = NoneVal /\ h_cm = NoneVal
  /\ typed = NoneVal
  /\ arg = NoneVal /\ ret = NoneVal

Init == mode \in {"cli", "gui"} /\ Loaded

Next == CliNext \/ GuiNext

Spec == Init /\ [][Next]_vars

\* the window alone, with forms filled in at once
RangeInit == mode = "gui" /\ Loaded

SpecRange == RangeInit /\ [][RangeNext]_vars

(***************************************************************************)
(* The functions of firingrange.py called directly, one call on sampled    *)
(* arguments: arg is the call, ret what it returned or raised.             *)
(***************************************************************************)
LibInit == mode = "lib" /\ Loaded

SexArgs == { <<"m">>, <<"M">>, <<"f">>, <<"F">>, <<"x">>, << >>, <<"m", "a", "l", "e">> }
WeightArgs == { FZero(0), FDec(7025, 2), FInt(300) }
HeightArgs == { FInt(120), FDec(1755, 1) }
\* (10^HugeZeros is an int past the largest double)
AgeArgs == { IntOf(0), IntOf(25), IntOf(-3), [s |-> 0, m |-> BPow10(HugeZeros)] }
BmrArgs == { FZero(0), FDec(167375, 2), FInt(-161), FDec(1, 1) }
KeyArgs == { CliFactors[i].key : i \in DOMAIN CliFactors }
            \cup { <<"L", "I", "G", "H", "T">>, <<"V", "e", "r", "y">>,
                   <<"u", "n", "k", "n", "o", "w", "n", "_", "k", "e", "y">>, << >> }

CallBmr ==
  /\ mode = "lib" /\ arg = NoneVal
  /\ \E sx \in SexArgs, w \in WeightArgs, h \in HeightArgs, a \in AgeArgs :
       /\ arg' = [fn |-> "bmr_mifflin_st_jeor", sex |-> sx, weight_kg |-> w,
                  height_cm |-> h, age_years |-> a]
       /\ ret' = bmr_mifflin_st_jeor(sx, w, h, a)
  /\ UNCHANGED <<mode, tables, cli_vars, gui_vars, local_vars, typed>>

CallTdee ==
  /\ mode = "lib" /\ arg = NoneVal
  /\ \E b \in BmrArgs, key \in KeyArgs :
       /\ arg' = [fn |-> "tdee_from_bmr", bmr |-> b, activity_key |-> key]
       /\ ret' = tdee_from_bmr(b, key)
  /\ UNCHANGED <<mode, tables, cli_vars, gui_vars, local_vars, typed>>

SpecFormula == LibInit /\ [][CallBmr \/ CallTdee]_vars

\* the doubles the conversions are applied to: m * 2^e for the smallest and the
\* largest significands, at exponents from the subnormals to the largest
MaxMant == 3
ConvArgs ==
  { FRound(0, m, e, FALSE) :
      m \in { BN(k) : k \in 1..MaxMant }
             \cup { BSub(BShl(<<1>>, SigBits), BN(k)) : k \in 1..MaxMant },
      e \in { EMin, -1060, -1040, -1000, -60, -53, -46, 0, 10, 947, EMax - 1, EMax } }
  \ { FInf(0) }

RoundTrip(fn, w) ==
  CASE fn = "kg_to_lbs(lbs_to_kg(w))" -> kg_to_lbs(lbs_to_kg(w))
    [] fn = "lbs_to_kg(kg_to_lbs(w))" -> lbs_to_kg(kg_to_lbs(w))
    [] fn = "cm_to_inches(inches_to_cm(h))" -> cm_to_inches(inches_to_cm(w))
    [] fn = "inches_to_cm(cm_to_inches(h))" -> inches_to_cm(cm_to_inches(w))

WeightRoundTrip ==
  /\ mode = "lib" /\ arg = NoneVal
  /\ \E w \in ConvArgs, fn \in {"kg_to_lbs(lbs_to_kg(w))", "lbs_to_kg(kg_to_lbs(w))"} :
       /\ arg' = [fn |-> fn, w |-> w]
       /\ ret' = Ok(RoundTrip(fn, w))
  /\ UNCHANGED <<mode, tables, cli_vars, gui_vars, local_vars, typed>>

LengthRoundTrip ==
  /\ mode = "lib" /\ arg = NoneVal
  /\ \E h \in ConvArgs,
        fn \in {"cm_to_inches(inches_to_cm(h))", "inches_to_cm(cm_to_inches(h))"} :
       /\ arg' = [fn |-> fn, w |-> h]
       /\ ret' = Ok(RoundTrip(fn, h))
  /\ UNCHANGED <<mode, tables, cli_vars, gui_vars, local_vars, typed>>

SpecConv == LibInit /\ [][WeightRoundTrip \/ LengthRoundTrip]_vars

(***************************************************************************)
(* Exact comparisons on doubles, for stating the properties.               *)
(***************************************************************************)
\* a is a well-formed finite double
FWellFormed(a) ==
  /\ a.k = "fin"
  /\ BBitLen(a.m) <= SigBits
  /\ a.e >= EMin /\ a.e <= EMax
  /\ a.e = EMin \/ BBitLen(a.m) = SigBits

\* |a - b| for naturals
BDist(a, b) == IF BCmp(a, b) >= 0 THEN BSub(a, b) ELSE BSub(b, a)

\* 2^k as a double
FPow2(k) == [k |-> "fin", s |-> 0, m |-> BShl(<<1>>, SigBits - 1), e |-> k - (SigBits - 1)]

\* for finite a >= 0 and finite b > 0: |a - b| < b / 10^9
FCloseTo(a, b) ==
  LET e0 == Min(a.e, b.e)
      A == BShl(a.m, a.e - e0)
      B == BShl(b.m, b.e - e0)
  IN  /\ a.k = "fin" /\ a.s = 0
      /\ BCmp(BMul(BDist(A, B), BPow10(9)), B) < 0

\* r is a double nearest to the exact product of the finite doubles a and b
\* (no overflow): the sign of the product, and within half a unit in the last
\* place of r
FIsProduct(r, a, b) ==
  LET e0 == Min(r.e - 1, a.e + b.e)
      R == BShl(r.m, r.e - e0)
      P == BShl(BMul(a.m, b.m), a.e + b.e - e0)
      half == BShl(<<1>>, r.e - 1 - e0)
  IN  /\ FWellFormed(r)
      /\ r.s = (a.s + b.s) % 2
      /\ BCmp(BDist(R, P), half) <= 0

\* f is a double nearest to n / 10^p, for n > 0
FIsDecimal(f, n, p) ==
  LET e0 == Min(f.e - 1, 0)
      F == BMul(BShl(f.m, f.e - e0), BPow10(p))
      N == BShl(BN(n), 0 - e0)
      half == BMul(BShl(<<1>>, f.e - 1 - e0), BPow10(p))
  IN  /\ FWellFormed(f) /\ f.s = 0
      /\ BCmp(BDist(F, N), half) <= 0

(***************************************************************************)
(* C7.  Round trips of the conversions.                                    *)
(***************************************************************************)
RoundTripDone == mode = "lib" /\ arg # NoneVal /\ ret # NoneVal

\* C7 as the specification words it: for every w > 0 (h > 0), each of the
\* four round trips gives back w with a relative error below 1e-9.
C7_RoundTripAll == RoundTripDone => FCloseTo(ret.val, arg.w)

FMidRange(w) == w.k = "fin" /\ FLe(FPow2(-1000), w) /\ FLe(w, FPow2(1000))

\* C7, amended: for every finite w (h) with 2^-1000 <= w <= 2^1000, each of
\* the four round trips kg_to_lbs(lbs_to_kg(w)), lbs_to_kg(kg_to_lbs(w)),
\* cm_to_inches(inches_to_cm(h)), inches_to_cm(cm_to_inches(h)) gives back a
\* finite value whose relative error against w is below 1e-9.
C7_RoundTripMidRange == RoundTripDone /\ FMidRange(arg.w) => FCloseTo(ret.val, arg.w)

\* a round trip in that range which is close to w without being w
C7_Witness == RoundTripDone /\ FMidRange(arg.w) /\ ret.val # arg.w

(***************************************************************************)
(* C1.  bmr_mifflin_st_jeor.                                               *)
(***************************************************************************)
BmrDone == mode = "lib" /\ arg # NoneVal /\ arg.fn = "bmr_mifflin_st_jeor"

\* 10*weight_kg + 6.25*height_cm - 5*age_years + shift, evaluated left to right
BmrValue(w, h, a, shift) ==
  FAdd(FSub(FAdd(FMul(FInt(10), w), FMul(FDec(625, 2), h)),
            IntToFloat(IMul(IntOf(5), a)).val),
       FInt(shift))

\* C1: for every sex string, weight_kg, height_cm and age_years the function
\* returns 10*weight_kg + 6.25*height_cm - 5*age_years + 5 when the sex
\* lower-cases to "m", the same with - 161 when it lower-cases to "f", and
\* raises ValueError, returning nothing, for every other sex string.
C1_BmrFormula ==
  BmrDone =>
    LET s == Lower(arg.sex)
    IN  IF s = <<"m">>
        THEN ret.ok /\ ret.val = BmrValue(arg.weight_kg, arg.height_cm, arg.age_years, 5)
        ELSE IF s = <<"f">>
        THEN ret.ok
             /\ ret.val = BmrValue(arg.weight_kg, arg.height_cm, arg.age_years, -161)
        ELSE ~ret.ok /\ ret.exc = "ValueError"

(***************************************************************************)
(* C2.  tdee_from_bmr.                                                     *)
(***************************************************************************)
TdeeDone == mode = "lib" /\ arg # NoneVal /\ arg.fn = "tdee_from_bmr"

\* the Activity Table as section 3 of the specification gives it: key,
\* multiplier as numerator and number of decimals
ActivityTable ==
  << [key |-> <<"s", "e", "d", "e", "n", "t", "a", "r", "y">>, n |-> 12, p |-> 1],
     [key |-> <<"l", "i", "g", "h", "t">>, n |-> 1375, p |-> 3],
     [key |-> <<"m", "o", "d", "e", "r", "a", "t", "e">>, n |-> 155, p |-> 2],
     [key |-> <<"v", "e", "r", "y">>, n |-> 1725, p |-> 3],
     [key |-> <<"a", "t", "h", "l", "e", "t", "e">>, n |-> 19, p |-> 1] >>

\* "sedentary, light, moderate, very, athlete"
FiveKeysListed ==
  <<"s", "e", "d", "e", "n", "t", "a", "r", "y", ",", " ", "l", "i", "g", "h", "t",
    ",", " ", "m", "o", "d", "e", "r", "a", "t", "e", ",", " ", "v", "e", "r", "y",
    ",", " ", "a", "t", "h", "l", "e", "t", "e">>

\* C2: tdee_from_bmr looks the key up case-insensitively: when the lower-cased
\* key is one of the five table keys it returns bmr times that key's
\* multiplier (the product rounded to the nearest double), and otherwise it
\* raises ValueError with the message "activity must be one of: sedentary,
\* light, moderate, very, athlete".
C2_TdeeLookup ==
  TdeeDone =>
    LET key == Lower(arg.activity_key)
        at == {i \in DOMAIN ActivityTable : ActivityTable[i].key = key}
    IN  IF at # {}
        THEN /\ ret.ok
             /\ \E f \in {ACTIVITY_FACTORS[i].factor : i \in at} :
                  /\ \A i \in at : FIsDecimal(f, ActivityTable[i].n, ActivityTable[i].p)
                  /\ FIsProduct(ret.val, arg.bmr, f)
        ELSE /\ ~ret.ok /\ ret.exc = "ValueError"
             /\ ret.msg = <<"activity must be one of: ", FiveKeysListed>>

\* a key in other casing found, and an absent key refused
C2_Witness ==
  /\ TdeeDone
  /\ \/ ret.ok /\ arg.activity_key # Lower(arg.activity_key) /\ ~FIsZero(arg.bmr)
     \/ ~ret.ok /\ arg.activity_key # << >>

(***************************************************************************)
(* C3.  The sanity checks of the window's Compute.                         *)
(***************************************************************************)
\* the numbers behind the form, against the ranges of the specification
\* (weights and heights in tenths)
TypedAgeOk == 14 <= typed.age /\ typed.age <= 90
TypedWeightOk ==
  IF weight_unit_var = KG THEN 10 * 30 <= typed.weight /\ typed.weight <= 10 * 300
                          ELSE 10 * 66 <= typed.weight /\ typed.weight <= 10 * 660
TypedHeightOk ==
  IF height_unit_var = CM THEN 10 * 120 <= typed.height /\ typed.height <= 10 * 220
                          ELSE 10 * 47 <= typed.height /\ typed.height <= 10 * 87

\* the message that names the first bound violated
TypedComplaint ==
  IF ~TypedAgeOk THEN "Age must be between 14 and 90."
  ELSE IF ~TypedWeightOk
  THEN (IF weight_unit_var = KG THEN "Weight in kg must be between 30 and 300."
                                ELSE "Weight in lb must be between 66 and 660.")
  ELSE IF height_unit_var = CM THEN "Height in cm must be between 120 and 220."
  ELSE "Height in inches must be between 47 and 87."

LabelsSet ==
  /\ bmr_label.val # Placeholder
  /\ tdee_label.val # Placeholder
  /\ ref_label.val # Placeholder

\* C3: Compute accepts the form exactly when the age is in [14, 90], the
\* weight in [30, 300] for kg or [66, 660] for lb, and the height in
\* [120, 220] for cm or [47, 87] for in, the limits included; otherwise it
\* shows the "Invalid input" box with the message naming the bound violated
\* and gives no result.
C3_Ranges ==
  [][ compute /\ typed # NoneVal =>
        IF TypedAgeOk /\ TypedWeightOk /\ TypedHeightOk
        THEN dialog' = NoneVal /\ person' # NoneVal /\ LabelsSet'
        ELSE /\ dialog' = [title |-> "Invalid input", message |-> <<TypedComplaint>>]
             /\ UNCHANGED <<label_vars, local_vars>> ]_vars

\* the limits themselves accepted, and a form one step outside refused
C3_Witness ==
  /\ mode = "gui" /\ typed # NoneVal
  /\ \/ /\ typed.age = 90 /\ typed.weight = 10 * 660 /\ typed.height = 10 * 47
        /\ person # NoneVal /\ LabelsSet
     \/ /\ typed.age = 14 /\ typed.weight = 10 * 30 /\ typed.height = 10 * 220 + 1
        /\ dialog # NoneVal

(***************************************************************************)
(* C10.  What an accepted form displays.                                   *)
(***************************************************************************)
\* C10: whenever the window shows a result, the BMR displayed is strictly
\* positive and the TDEE displayed is strictly greater than that BMR.
C10_PositiveResult ==
  mode = "gui" /\ bmr_label.val # Placeholder =>
    /\ bmr_label.val.k = "fin" /\ bmr_label.val.s = 0 /\ bmr_label.val.n # << >>
    /\ tdee_label.val # Placeholder
    /\ tdee_label.val.k = "fin" /\ tdee_label.val.s = 0
    /\ BCmp(tdee_label.val.n, bmr_label.val.n) > 0

\* the smallest accepted weight at the greatest age, for a woman, displayed
C10_Witness ==
  /\ mode = "gui" /\ typed # NoneVal /\ LabelsSet
  /\ sex_var = <<"f">> /\ typed.age = 90 /\ typed.weight = 10 * 30
  /\ weight_unit_var = KG /\ typed.height = 10 * 47

(***************************************************************************)
(* C4.  The two outcomes of Compute.                                       *)
(***************************************************************************)
\* the result of the form as it stands now is what the three labels show next
ResultShown ==
  LET p == person'.some
      bmr == bmr_mifflin_st_jeor(sex_var, w_kg'.some, h_cm'.some, p.age)
      factor == Lookup(gui_ACTIVITY_FACTORS, activity_var)
  IN  /\ person' # NoneVal /\ w_kg' # NoneVal /\ h_cm' # NoneVal
      /\ p.sex = sex_var /\ p.activity_label = activity_var
      /\ p.weight_unit = weight_unit_var /\ p.height_unit = height_unit_var
      /\ Ok(p.age) = ParseInt(age_var)
      /\ Ok(p.weight) = ParseFloat(weight_var)
      /\ Ok(p.height) = ParseFloat(height_var)
      /\ bmr.ok /\ factor.ok
      /\ bmr_label' = [text |-> BmrText, val |-> FFormat(bmr.val, 0)]
      /\ tdee_label' = [text |-> TdeeText, val |-> FFormat(FMul(bmr.val, factor.val), 0)]
      /\ ref_label'.text = RefText
      /\ ref_label'.val # Placeholder
      /\ ref_label'.val.weight_kg = FFormat(w_kg'.some, 1)
      /\ ref_label'.val.height_cm = FFormat(h_cm'.some, 1)
      /\ ref_label'.val.factor = FFormat(factor.val, 3)

\* C4: every Compute either puts the result of the present inputs into all
\* three labels and opens no dialog, or opens one error dialog and leaves the
\* three labels as they were; in both cases every input field stays as it is.
C4_ComputeAllOrNothing ==
  [][ (dialog' # dialog \/ label_vars' # label_vars \/ local_vars' # local_vars)
      /\ compute =>
        /\ UNCHANGED form_vars
        /\ \/ dialog' = NoneVal /\ ResultShown
           \/ dialog' # NoneVal /\ UNCHANGED label_vars ]_vars

\* a Compute refused while the labels show an earlier result
C4_Witness == mode = "gui" /\ dialog # NoneVal /\ LabelsSet

(***************************************************************************)
(* C5.  One conversion step from the stored unit.                          *)
(***************************************************************************)
\* v is x as stored when the unit is base, and x times the factor n / 10^p,
\* rounded once, otherwise
OneStep(v, x, unit, base, n, p) ==
  IF unit = base THEN v = x
  ELSE \E f \in {KG_PER_LB, CM_PER_INCH} : FIsDecimal(f, n, p) /\ FIsProduct(v, x, f)

\* C5: in both front ends the weight_kg and height_cm passed to the BMR
\* formula come from the Person's stored weight and height by one conversion
\* step: a weight in lb is multiplied by 0.45359237 once, a height in in by
\* 2.54 once, a value in kg or cm is passed as stored; and the Person holds
\* the answers (or the fields of the form) as they were given.
C5_OneConversion ==
  [][ person' # person =>
        LET p == person'.some
        IN  /\ OneStep(w_kg'.some, p.weight, p.weight_unit, KG, 45359237, 8)
            /\ OneStep(h_cm'.some, p.height, p.height_unit, CM, 254, 2)
            /\ IF mode = "cli"
               THEN /\ p.weight = weight /\ p.weight_unit = w_unit
                    /\ p.height = height /\ p.height_unit = h_unit
               ELSE /\ Ok(p.weight) = ParseFloat(weight_var)
                    /\ p.weight_unit = weight_unit_var
                    /\ Ok(p.height) = ParseFloat(height_var)
                    /\ p.height_unit = height_unit_var ]_vars

\* the prompt flow has converted a weight in lb and a height in in
C5_Witness ==
  /\ mode = "cli" /\ person # NoneVal
  /\ person.some.weight_unit = LB /\ person.some.height_unit = IN_
  /\ w_kg.some # person.some.weight /\ h_cm.some # person.some.height

(***************************************************************************)
(* C6.  Clear.                                                             *)
(***************************************************************************)
\* C6: after any sequence of edits, selections, Computes and Clears, Clear
\* puts the form into its start-up state: sex m, units kg and cm, the second
\* activity of the table, the three entries empty, the three labels showing
\* the placeholder; and Clear from that state changes nothing.
C6_ClearResets ==
  [][ clear =>
        /\ TDEEApp_init'
        /\ sex_var' = <<"m">> /\ weight_unit_var' = KG /\ height_unit_var' = CM
        /\ activity_var' = "Light (1\\u20133 days/wk)"
        /\ activity_var' = gui_ACTIVITY_FACTORS[2].key
        /\ age_var' = << >> /\ weight_var' = << >> /\ height_var' = << >>
        /\ bmr_label'.val = [placeholder |-> "\\u2014"]
        /\ tdee_label'.val = [placeholder |-> "\\u2014"]
        /\ ref_label'.val = [placeholder |-> "\\u2014"]
        /\ (TDEEApp_init => UNCHANGED vars) ]_vars

\* a cleared form after a result had been shown
C6_Witness == mode = "gui" /\ person # NoneVal /\ TDEEApp_init

(***************************************************************************)
(* C8.  The Activity Tables.                                               *)
(***************************************************************************)
Multipliers(d) == [i \in DOMAIN d |-> d[i].factor]

\* C8: in every reachable state each front end's table has five entries with
\* the multipliers 1.2, 1.375, 1.55, 1.725, 1.9, increasing and at least 1.0,
\* the same values in the same order in both tables.
C8_Tables ==
  /\ Len(ACTIVITY_FACTORS) = 5 /\ Len(gui_ACTIVITY_FACTORS) = 5
  /\ Multipliers(ACTIVITY_FACTORS) = Multipliers(gui_ACTIVITY_FACTORS)
  /\ Keys(ACTIVITY_FACTORS) = Keys(ActivityTable)
  /\ \A i \in 1..5 :
       /\ FIsDecimal(ACTIVITY_FACTORS[i].factor, ActivityTable[i].n, ActivityTable[i].p)
       /\ FLe(FInt(1), ACTIVITY_FACTORS[i].factor)
  /\ \A i \in 1..4 : FLt(ACTIVITY_FACTORS[i].factor, ACTIVITY_FACTORS[i + 1].factor)

\* a run of the prompt flow to its report, or a result in the window
C8_Witness ==
  \/ mode = "cli" /\ pc = "done"
  \/ mode = "gui" /\ LabelsSet /\ dialog # NoneVal

(***************************************************************************)
(* C9.  The prompt flow.                                                   *)
(***************************************************************************)
PromptOrder == <<"sex", "age", "w_unit", "weight", "h_unit", "height", "activity">>
PromptNo(id) == CHOOSE i \in DOMAIN PromptOrder : PromptOrder[i] = id

\* the fixed message of the prompt
IsFixedMessage(e, id) ==
  /\ e.what = "print"
  /\ IF id \in {"weight", "height"} THEN e.text = <<"Please enter a number.">>
     ELSE IF id = "age" THEN e.text = <<"Please enter an integer.">>
     ELSE Len(e.text) = 2 /\ e.text[1] = "Please choose one of: "

IsInput(e) == e.what = "input"
Reports == {j \in DOMAIN stdout : stdout[j] = ResultsHeader}

\* C9: the prompts come in the order sex, age, weight unit, weight, height
\* unit, height, activity; a prompt is issued again only after the fixed
\* message for a refused answer; nothing of a report is printed before all
\* seven answers are accepted, and once they are, exactly one report is
\* printed and the run has ended.
C9_PromptsThenOneReport ==
  mode = "cli" =>
    LET asked == SelectSeq(stdout, IsInput)
    IN  /\ ~IsInput(stdout[1]) /\ IsInput(stdout[2]) /\ stdout[2].id = "sex"
        /\ \A j \in 3..Len(stdout) :
             IsInput(stdout[j]) =>
               IF IsInput(stdout[j - 1])
               THEN PromptNo(stdout[j].id) = PromptNo(stdout[j - 1].id) + 1
               ELSE IF stdout[j].id = "activity" /\ stdout[j - 1] = Legend[Len(Legend)]
               THEN IsInput(stdout[j - 1 - Len(Legend)])
                    /\ stdout[j - 1 - Len(Legend)].id = "height"
               ELSE /\ IsFixedMessage(stdout[j - 1], stdout[j].id)
                    /\ stdout[j - 2] = stdout[j]
        /\ asked[Len(asked)].id = IF pc \in {"done", "crashed"} THEN "activity" ELSE pc
        /\ activity = NoneVal => Reports = {} /\ pc \notin {"done", "crashed"}
        /\ activity # NoneVal => Cardinality(Reports) = 1 /\ pc = "done"

=============================================================================
